---- MODULE Spec2Model ----
(***************************************************************************)
(* Model of rag.py: the line-boundary text splitter, the two artifact      *)
(* loaders, the corpus build, the retrieval-augmented answer step and the  *)
(* interactive query loop of main.                                         *)
(*                                                                         *)
(* A Python str is a sequence of one-character strings.                    *)
(***************************************************************************)
EXTENDS Integers, Sequences, FiniteSets, TLC

VARIABLES
    \* split_text called on its own
    text,        \* the text argument
    max_len,     \* the max_len argument
    spc,         \* "call" before the call, "ret" after it, "idle" when main runs
    chunks,      \* the returned list
    groups,      \* history: for each returned chunk, the source lines in its buffer
    \* the directory main reads
    dirExists,   \* whether BASE_DATA_DIR exists
    listing,     \* os.listdir(BASE_DATA_DIR): the entries, each with its content
    \* main
    pc,          \* where main is
    idx,         \* load_all_data: the listing entry the for loop is at
    documents,   \* load_all_data: the list built so far
    loaded,      \* history: per loaded file, its name, kind and the units made from it
    diagnostics, \* history: the paths reported by "[!] Failed to read CSV"
    outcome,     \* how main ended: "", "no_data", "interrupted" or the exception raised
    vectorstore, \* the units held by the Chroma collection
    indexBuilds, \* history: number of Chroma.from_documents calls
    llmCreated,  \* whether ChatGroq(...) has been constructed
    nq,          \* history: number of inputs read by the loop
    q,           \* the loop's q
    retrieved,   \* ask_rag: docs
    prompt,      \* ask_rag: the prompt handed to the model
    ans,         \* the loop's ans
    qRetr,       \* history: retriever calls since the last input was read
    qLlm,        \* history: model calls since the last input was read
    qPrinted     \* history: answers printed since the last input was read

svars == <<text, max_len, spc, chunks, groups>>
dvars == <<dirExists, listing>>
lvars == <<pc, idx, documents, loaded, diagnostics, outcome>>
mvars == <<vectorstore, indexBuilds, llmCreated, nq, q, retrieved, prompt, ans,
           qRetr, qLlm, qPrinted>>
vars == <<svars, dvars, lvars, mvars>>

----------------------------------------------------------------------------
(* Characters *)

NL == "\n"
FF == "\f"
SP == " "

\* Characters str.strip() removes (those that occur in the model's alphabet).
Whitespace == {SP, NL, FF}

\* Characters str.splitlines() breaks lines on; "\f" stands for the boundaries
\* other than "\n" (\v, \f, \x1c-\x1e, \x85, U+2028, U+2029).
LineBoundaries == {NL, FF}

----------------------------------------------------------------------------
(* str helpers *)

\* str.strip(): s without its leading and trailing whitespace.
strip(s) ==
    IF \A i \in 1..Len(s) : s[i] \in Whitespace THEN <<>>
    ELSE LET lo == CHOOSE i \in 1..Len(s) :
                       s[i] \notin Whitespace /\ \A j \in 1..(i - 1) : s[j] \in Whitespace
             hi == CHOOSE i \in 1..Len(s) :
                       s[i] \notin Whitespace /\ \A j \in (i + 1)..Len(s) : s[j] \in Whitespace
         IN  SubSeq(s, lo, hi)

\* The end of the line of s that starts at p: just before the next boundary,
\* or the end of s.
lineEnd(s, p) ==
    IF \E b \in p..Len(s) : s[b] \in LineBoundaries
    THEN (CHOOSE b \in p..Len(s) :
              s[b] \in LineBoundaries /\ \A j \in p..(b - 1) : s[j] \notin LineBoundaries) - 1
    ELSE Len(s)

\* str.splitlines(): the lines of s without their boundaries; a trailing
\* boundary opens no further line.
RECURSIVE splitlinesFrom(_, _)
splitlinesFrom(s, p) ==
    IF p > Len(s) THEN <<>>
    ELSE <<SubSeq(s, p, lineEnd(s, p))>> \o splitlinesFrom(s, lineEnd(s, p) + 2)

splitlines(s) == splitlinesFrom(s, 1)

----------------------------------------------------------------------------
(* split_text *)

\* A faulty loop body: the flush restarts the buffer empty, losing the line.
splitStepDropLine(st, line, maxLen) ==
    IF Len(st.buf) + Len(line) <= maxLen
    THEN [st EXCEPT !.buf = st.buf \o line \o <<NL>>, !.grp = Append(st.grp, line)]
    ELSE [chunks |-> Append(st.chunks, strip(st.buf)),
          buf    |-> <<>>,
          groups |-> Append(st.groups, st.grp),
          grp    |-> <<>>]

\* A faulty loop body: the test leaves the buffer's newlines out of its length.
splitStepNoNewlineCount(st, line, maxLen) ==
    IF (IF st.buf = <<>> THEN 0 ELSE Len(st.buf) - 1) + Len(line) <= maxLen
    THEN [st EXCEPT !.buf = st.buf \o line \o <<NL>>, !.grp = Append(st.grp, line)]
    ELSE [chunks |-> Append(st.chunks, strip(st.buf)),
          buf    |-> line \o <<NL>>,
          groups |-> Append(st.groups, st.grp),
          grp    |-> <<line>>]

\* One iteration of the for loop: st is [chunks, buf, groups, grp]; grp and
\* groups record which lines went into buf and into each flushed chunk.
splitStep(st, line, maxLen) ==
    IF Len(st.buf) + Len(line) <= maxLen
    THEN [st EXCEPT !.buf = st.buf \o line \o <<NL>>, !.grp = Append(st.grp, line)]
    ELSE [chunks |-> Append(st.chunks, strip(st.buf)),
          buf    |-> line \o <<NL>>,
          groups |-> Append(st.groups, st.grp),
          grp    |-> <<line>>]

RECURSIVE splitLoop(_, _, _, _)
splitLoop(st, lines, i, maxLen) ==
    IF i > Len(lines) THEN st
    ELSE splitLoop(splitStep(st, lines[i], maxLen), lines, i + 1, maxLen)

\* The whole function, history included: the loop, then the final flush of a
\* buffer that is not blank.
splitRun(t, maxLen) ==
    LET st == splitLoop([chunks |-> <<>>, buf |-> <<>>, groups |-> <<>>, grp |-> <<>>],
                        splitlines(t), 1, maxLen)
    IN  IF strip(st.buf) # <<>>
        THEN [chunks |-> Append(st.chunks, strip(st.buf)),
              groups |-> Append(st.groups, st.grp)]
        ELSE [chunks |-> st.chunks, groups |-> st.groups]

split_text(t, maxLen) == splitRun(t, maxLen).chunks

----------------------------------------------------------------------------
(* More str helpers *)

UpperCase == {"A", "B", "C", "D", "E", "F", "G", "H", "I", "J", "K", "L", "M",
              "N", "O", "P", "Q", "R", "S", "T", "U", "V", "W", "X", "Y", "Z"}

lowerChar(c) ==
    IF c \notin UpperCase THEN c
    ELSE ("A" :> "a" @@ "B" :> "b" @@ "C" :> "c" @@ "D" :> "d" @@ "E" :> "e" @@
          "F" :> "f" @@ "G" :> "g" @@ "H" :> "h" @@ "I" :> "i" @@ "J" :> "j" @@
          "K" :> "k" @@ "L" :> "l" @@ "M" :> "m" @@ "N" :> "n" @@ "O" :> "o" @@
          "P" :> "p" @@ "Q" :> "q" @@ "R" :> "r" @@ "S" :> "s" @@ "T" :> "t" @@
          "U" :> "u" @@ "V" :> "v" @@ "W" :> "w" @@ "X" :> "x" @@ "Y" :> "y" @@
          "Z" :> "z")[c]

\* str.lower()
lower(s) == [i \in 1..Len(s) |-> lowerChar(s[i])]

\* sub in s
Contains(sub, s) ==
    \E k \in 0..(Len(s) - Len(sub)) : SubSeq(s, k + 1, k + Len(sub)) = sub

\* s.endswith(suffix)
endswith(s, suffix) ==
    /\ Len(s) >= Len(suffix)
    /\ SubSeq(s, Len(s) - Len(suffix) + 1, Len(s)) = suffix

\* "\n".join(lines)
RECURSIVE JoinNL(_)
JoinNL(lines) ==
    IF lines = <<>> THEN <<>>
    ELSE IF Len(lines) = 1 THEN lines[1]
    ELSE lines[1] \o <<NL>> \o JoinNL(Tail(lines))

RECURSIVE Concat(_)
Concat(seqs) == IF seqs = <<>> THEN <<>> ELSE seqs[1] \o Concat(Tail(seqs))

\* os.path.join(base, name)
pathJoin(base, name) == base \o <<"/">> \o name

\* os.path.basename(path): what follows the last "/"
basename(path) ==
    IF \E k \in 1..Len(path) : path[k] = "/"
    THEN LET last == CHOOSE k \in 1..Len(path) :
                         path[k] = "/" /\ \A j \in (k + 1)..Len(path) : path[j] # "/"
         IN  SubSeq(path, last + 1, Len(path))
    ELSE path

----------------------------------------------------------------------------
(* Configuration *)

BASE_DATA_DIR == <<"/", "h", "o", "m", "e", "/", "a", "k", "h", "i", "l", "/", "D", "e", "s", "k", "t", "o", "p", "/", "A", "t", "t", "a", "c", "k", "s", "/", "R", "y", "u">>

\* split_text's default max_len, which both loaders use.
DefaultMaxLen == 500

\* search_kwargs={"k": 6}
RetrieverK == 6

----------------------------------------------------------------------------
(* The loaders *)

\* The {attack} placeholder of the templates.
attackText(attack) ==
    CASE attack = "dos" -> <<"d", "o", "s">>
      [] attack = "arp_spoofing" -> <<"a", "r", "p", "_", "s", "p", "o", "o", "f", "i", "n", "g">>
      [] attack = "flow_rule_poisoning" -> <<"f", "l", "o", "w", "_", "r", "u", "l", "e", "_", "p", "o", "i", "s", "o", "n", "i", "n", "g">>
      [] OTHER -> <<"u", "n", "k", "n", "o", "w", "n">>

Document(content, meta) == [page_content |-> content, metadata |-> meta]

\* load_controller_log: the attack category of a file name.
logAttack(fname) ==
    IF Contains(<<"d", "o", "s">>, fname) THEN "dos"
    ELSE IF Contains(<<"a", "r", "p">>, fname) THEN "arp_spoofing"
    ELSE IF Contains(<<"f", "l", "o", "w">>, fname) THEN "flow_rule_poisoning"
    ELSE "unknown"

\* load_wireshark_csv: the attack category of a file name.
csvAttack(fname) ==
    IF Contains(<<"a", "r", "p">>, fname) THEN "arp_spoofing"
    ELSE IF Contains(<<"f", "l", "o", "w">>, fname) THEN "flow_rule_poisoning"
    ELSE IF Contains(<<"d", "o", "s">>, fname) THEN "dos"
    ELSE "unknown"

\* The text rendered for one log line.
logText(attack, line) ==
    <<NL>> \o <<"A", "T", "T", "A", "C", "K", ":", " ">> \o attackText(attack) \o <<NL>>
           \o <<"S", "O", "U", "R", "C", "E", ":", " ", "C", "o", "n", "t", "r", "o", "l", "l", "e", "r", " ", "L", "o", "g">> \o <<NL>>
           \o <<"P", "L", "A", "N", "E", ":", " ", "C", "o", "n", "t", "r", "o", "l">> \o <<NL>>
           \o <<"L", "O", "G", ":", " ">> \o line \o <<NL>>

\* The metadata of a unit made from a log line.
logMetadata(attack) ==
    [attack |-> attack, plane |-> "control", source |-> "controller_log"]

\* The units made from one line of the file: none for a blank line.
logLineDocs(attack, rawLine) ==
    LET line == strip(rawLine)
        cs   == split_text(logText(attack, line), DefaultMaxLen)
    IN  IF line = <<>> THEN <<>>
        ELSE [c \in 1..Len(cs) |-> Document(cs[c], logMetadata(attack))]

\* load_controller_log(path) on a file whose lines are file.lines: open()
\* raises for a file that cannot be opened, and nothing catches it.
load_controller_log(path, file) ==
    LET attack == logAttack(lower(basename(path)))
    IN  IF ~file.readable
        THEN [raised |-> TRUE, attack |-> attack, docs |-> <<>>]
        ELSE [raised |-> FALSE,
              attack |-> attack,
              docs   |-> Concat([n \in 1..Len(file.lines) |->
                                    logLineDocs(attack, file.lines[n])])]

\* "\n".join([f"{k}: {row[k]}" for k in row.index]); a cell is the text
\* str() gives for its value.
rowText(cols, row) ==
    JoinNL([k \in 1..Len(cols) |-> cols[k] \o <<":", " ">> \o row[k]])

\* The text rendered for one row.
csvText(attack, cols, row) ==
    <<NL>> \o <<"A", "T", "T", "A", "C", "K", ":", " ">> \o attackText(attack) \o <<NL>>
           \o <<"S", "O", "U", "R", "C", "E", ":", " ", "W", "i", "r", "e", "s", "h", "a", "r", "k", " ", "C", "S", "V">> \o <<NL>>
           \o <<"P", "L", "A", "N", "E", ":", " ", "D", "a", "t", "a">> \o <<NL>>
           \o rowText(cols, row) \o <<NL>>

\* A faulty tagging: the source label "pcap_row".
csvMetadataPcapRow(attack) ==
    [attack |-> attack, plane |-> "data", source |-> "pcap_row"]

\* The metadata of a unit made from a row.
csvMetadata(attack) ==
    [attack |-> attack, plane |-> "data", source |-> "pcap_csv"]

csvRowDocs(attack, cols, row) ==
    LET cs == split_text(csvText(attack, cols, row), DefaultMaxLen)
    IN  [c \in 1..Len(cs) |-> Document(cs[c], csvMetadata(attack))]

\* load_wireshark_csv(path) on a file pd.read_csv parses into file.cols and
\* file.rows, or fails on: the failure is reported and no unit is returned.
load_wireshark_csv(path, file) ==
    LET attack == csvAttack(lower(basename(path)))
    IN  IF ~file.parsable
        THEN [failed |-> TRUE, attack |-> attack, docs |-> <<>>]
        ELSE [failed |-> FALSE,
              attack |-> attack,
              docs   |-> Concat([n \in 1..Len(file.rows) |->
                                    csvRowDocs(attack, file.cols, file.rows[n])])]

----------------------------------------------------------------------------
(* Inputs *)

\* Longest directory listing.
MaxFiles == 2

\* Most inputs the loop reads in one run.
MaxQueries == 2

Rep(c, n) == [k \in 1..n |-> c]

\* Log lines: plain, blank, padded, longer than the chunk limit, and two
\* over-long stretches around two form feeds.
ShortLine == <<"p", "k", "t", "1", " ", "f", "l", "o", "o", "d">>
PaddedLine == <<" ", " ", "p", "k", "t", "2", " ", "f", "l", "o", "o", "d", " ">>
LongLine == Rep("A", DefaultMaxLen + 1)
BrokenLine == Rep("A", DefaultMaxLen + 1) \o <<FF, FF>> \o Rep("B", DefaultMaxLen + 1)

NormalBody == <<ShortLine, <<>>, <<SP>>, PaddedLine>>

CsvCols == <<<<"s", "r", "c">>, <<"d", "s", "t">>>>
OneRow == <<<<<<"1", "0", ".", "0", ".", "0", ".", "1">>, <<"1", "0", ".", "0", ".", "0", ".", "2">>>>>>
LongRows == <<<<LongLine, <<"1", "0", ".", "0", ".", "0", ".", "2">>>>, <<<<"1", "0", ".", "0", ".", "0", ".", "1">>, <<"1", "0", ".", "0", ".", "0", ".", "2">>>>>>

Stems == {<<"d", "o", "s", "_", "a", "r", "p", "_", "t", "e", "s", "t">>, <<"F", "l", "o", "w", "_", "D", "o", "S">>, <<"r", "a", "n", "d", "o", "m">>}

NoContent == [readable |-> TRUE, lines |-> <<>>, parsable |-> TRUE,
              cols |-> <<>>, rows |-> <<>>]

LogFile(stem, body) == [NoContent EXCEPT !.lines = body] @@ [name |-> stem \o <<".", "l", "o", "g">>]
UnreadableLog(stem) == [NoContent EXCEPT !.readable = FALSE] @@ [name |-> stem \o <<".", "l", "o", "g">>]
CsvFile(stem, body) ==
    [NoContent EXCEPT !.cols = CsvCols, !.rows = body] @@ [name |-> stem \o <<".", "c", "s", "v">>]
UnparsableCsv(stem) == [NoContent EXCEPT !.parsable = FALSE] @@ [name |-> stem \o <<".", "c", "s", "v">>]
OtherFile(stem) == NoContent @@ [name |-> stem \o <<".", "t", "x", "t">>]

\* The files a whole run of main is tried on.
MainFiles ==
    {LogFile(<<"d", "o", "s", "_", "a", "r", "p", "_", "t", "e", "s", "t">>, NormalBody),
     UnreadableLog(<<"r", "a", "n", "d", "o", "m">>),
     CsvFile(<<"F", "l", "o", "w", "_", "D", "o", "S">>, OneRow),
     UnparsableCsv(<<"d", "o", "s", "_", "a", "r", "p", "_", "t", "e", "s", "t">>),
     OtherFile(<<"r", "a", "n", "d", "o", "m">>)}

\* The files the corpus build is tried on: every stem as a log and as a CSV,
\* and the files with over-long, missing or unusable content.
Files ==
    {LogFile(s, NormalBody) : s \in Stems}
        \cup {CsvFile(s, OneRow) : s \in Stems}
        \cup {LogFile(<<"r", "a", "n", "d", "o", "m">>, <<LongLine>>),
              LogFile(<<"F", "l", "o", "w", "_", "D", "o", "S">>, <<BrokenLine>>),
              CsvFile(<<"d", "o", "s", "_", "a", "r", "p", "_", "t", "e", "s", "t">>, LongRows),
              CsvFile(<<"r", "a", "n", "d", "o", "m">>, <<>>)}
        \cup MainFiles

RECURSIVE SeqsUpTo(_, _)
SeqsUpTo(S, n) ==
    IF n = 0 THEN {<<>>}
    ELSE LET shorter == SeqsUpTo(S, n - 1)
         IN  shorter \cup {Append(s, x) : s \in {y \in shorter : Len(y) = n - 1}, x \in S}

Queries == {<<>>, <<SP, SP>>, <<" ", "w", "h", "y", " ", "d", "o", "s", "?", " ">>}

----------------------------------------------------------------------------
(* load_all_data *)

\* os.listdir(base_dir) raises when the directory does not exist.
ListDir ==
    /\ pc = "listdir"
    /\ IF dirExists
       THEN pc' = "walk" /\ UNCHANGED outcome
       ELSE pc' = "crashed" /\ outcome' = "FileNotFoundError"
    /\ UNCHANGED <<idx, documents, loaded, diagnostics>>
    /\ UNCHANGED <<svars, dvars, mvars>>

entryPath == pathJoin(BASE_DATA_DIR, listing[idx].name)

\* if file.endswith(".log"): documents += load_controller_log(full_path)
LoadLogEntry ==
    /\ pc = "walk"
    /\ idx <= Len(listing)
    /\ endswith(listing[idx].name, <<".", "l", "o", "g">>)
    /\ LET r == load_controller_log(entryPath, listing[idx])
       IN  IF r.raised
           THEN /\ pc' = "crashed"
                /\ outcome' = "OSError"
                /\ UNCHANGED <<idx, documents, loaded>>
           ELSE /\ documents' = documents \o r.docs
                /\ loaded' = Append(loaded, [name   |-> listing[idx].name,
                                             kind   |-> "log",
                                             attack |-> r.attack,
                                             units  |-> r.docs])
                /\ idx' = idx + 1
                /\ UNCHANGED <<pc, outcome>>
    /\ UNCHANGED diagnostics
    /\ UNCHANGED <<svars, dvars, mvars>>

\* elif file.endswith(".csv"): documents += load_wireshark_csv(full_path)
LoadCsvEntry ==
    /\ pc = "walk"
    /\ idx <= Len(listing)
    /\ ~endswith(listing[idx].name, <<".", "l", "o", "g">>)
    /\ endswith(listing[idx].name, <<".", "c", "s", "v">>)
    /\ LET r == load_wireshark_csv(entryPath, listing[idx])
       IN  /\ documents' = documents \o r.docs
           /\ loaded' = Append(loaded, [name   |-> listing[idx].name,
                                        kind   |-> "csv",
                                        attack |-> r.attack,
                                        units  |-> r.docs])
           /\ diagnostics' = IF r.failed THEN Append(diagnostics, entryPath)
                             ELSE diagnostics
    /\ idx' = idx + 1
    /\ UNCHANGED <<pc, outcome>>
    /\ UNCHANGED <<svars, dvars, mvars>>

\* Any other entry is passed over.
IgnoreEntry ==
    /\ pc = "walk"
    /\ idx <= Len(listing)
    /\ ~endswith(listing[idx].name, <<".", "l", "o", "g">>)
    /\ ~endswith(listing[idx].name, <<".", "c", "s", "v">>)
    /\ idx' = idx + 1
    /\ UNCHANGED <<pc, documents, loaded, diagnostics, outcome>>
    /\ UNCHANGED <<svars, dvars, mvars>>

\* return documents
LoadReturn ==
    /\ pc = "walk"
    /\ idx > Len(listing)
    /\ pc' = "check"
    /\ UNCHANGED <<idx, documents, loaded, diagnostics, outcome>>
    /\ UNCHANGED <<svars, dvars, mvars>>

LoadNext == ListDir \/ LoadLogEntry \/ LoadCsvEntry \/ IgnoreEntry \/ LoadReturn

----------------------------------------------------------------------------
(* main *)

\* A faulty main: the empty-corpus test is missing.
CheckDocumentsNoGuard ==
    /\ pc = "check"
    /\ pc' = "index"
    /\ UNCHANGED <<idx, documents, loaded, diagnostics, outcome>>
    /\ UNCHANGED <<svars, dvars, mvars>>

\* if not documents: print("[!] No data found."); return
CheckDocuments ==
    /\ pc = "check"
    /\ IF documents = <<>>
       THEN pc' = "done" /\ outcome' = "no_data"
       ELSE pc' = "index" /\ UNCHANGED outcome
    /\ UNCHANGED <<idx, documents, loaded, diagnostics>>
    /\ UNCHANGED <<svars, dvars, mvars>>

\* Chroma.from_documents(documents=documents, ...) and as_retriever. What an
\* earlier run left in the persisted collection is not modelled.
BuildIndex ==
    /\ pc = "index"
    /\ vectorstore' = documents
    /\ indexBuilds' = indexBuilds + 1
    /\ pc' = "client"
    /\ UNCHANGED <<idx, documents, loaded, diagnostics, outcome>>
    /\ UNCHANGED <<llmCreated, nq, q, retrieved, prompt, ans, qRetr, qLlm, qPrinted>>
    /\ UNCHANGED <<svars, dvars>>

\* The embedding or the store fails: the exception leaves main.
BuildIndexRaises ==
    /\ pc = "index"
    /\ pc' = "crashed"
    /\ outcome' = "IndexError"
    /\ UNCHANGED <<idx, documents, loaded, diagnostics>>
    /\ UNCHANGED <<svars, dvars, mvars>>

\* llm = ChatGroq(...); print("RAG READY")
CreateClient ==
    /\ pc = "client"
    /\ llmCreated' = TRUE
    /\ pc' = "input"
    /\ UNCHANGED <<idx, documents, loaded, diagnostics, outcome>>
    /\ UNCHANGED <<vectorstore, indexBuilds, nq, q, retrieved, prompt, ans,
                   qRetr, qLlm, qPrinted>>
    /\ UNCHANGED <<svars, dvars>>

\* q = input(">> ").strip(); if not q: continue
ReadQuery(raw) ==
    /\ pc = "input"
    /\ nq < MaxQueries
    /\ nq' = nq + 1
    /\ q' = strip(raw)
    /\ qRetr' = 0 /\ qLlm' = 0 /\ qPrinted' = 0
    /\ pc' = IF strip(raw) = <<>> THEN "input" ELSE "retrieve"
    /\ UNCHANGED <<idx, documents, loaded, diagnostics, outcome>>
    /\ UNCHANGED <<vectorstore, indexBuilds, llmCreated, retrieved, prompt, ans>>
    /\ UNCHANGED <<svars, dvars>>

\* input() raises EOFError at end of input; the loop catches only
\* KeyboardInterrupt.
ReadEOF ==
    /\ pc = "input"
    /\ pc' = "crashed"
    /\ outcome' = "EOFError"
    /\ UNCHANGED <<idx, documents, loaded, diagnostics>>
    /\ UNCHANGED <<svars, dvars, mvars>>

\* ask_rag: docs = retriever.invoke(query). The retriever is a collaborator:
\* it returns at most k of the stored units, possibly none.
Retrieve(n) ==
    /\ pc = "retrieve"
    /\ n <= Len(vectorstore)
    /\ retrieved' = SubSeq(vectorstore, 1, n)
    /\ qRetr' = qRetr + 1
    /\ pc' = "llm"
    /\ UNCHANGED <<idx, documents, loaded, diagnostics, outcome>>
    /\ UNCHANGED <<vectorstore, indexBuilds, llmCreated, nq, q, prompt, ans,
                   qLlm, qPrinted>>
    /\ UNCHANGED <<svars, dvars>>

RetrieveRaises ==
    /\ pc = "retrieve"
    /\ pc' = "crashed"
    /\ outcome' = "RetrieverError"
    /\ UNCHANGED <<idx, documents, loaded, diagnostics>>
    /\ UNCHANGED <<svars, dvars, mvars>>

\* ask_rag: the context block, one "[rank] content" entry per retrieved unit,
\* and the prompt around it.
askContext(docs) == [r \in 1..Len(docs) |-> [rank |-> r, content |-> docs[r].page_content]]

askPrompt(docs, query) == [context |-> askContext(docs), question |-> query]

\* What the model may answer.
Responses == {"model answer"}

\* The fixed text of a short-circuit on an empty retrieval result.
FallbackText == "no relevant evidence found"

\* A different ask_rag: an empty docs returns FallbackText without a model call.
InvokeLlmShortCircuit ==
    /\ pc = "llm"
    /\ IF retrieved = <<>>
       THEN ans' = FallbackText /\ UNCHANGED <<prompt, qLlm>>
       ELSE /\ prompt' = askPrompt(retrieved, q)
            /\ qLlm' = qLlm + 1
            /\ ans' \in Responses
    /\ pc' = "print"
    /\ UNCHANGED <<idx, documents, loaded, diagnostics, outcome>>
    /\ UNCHANGED <<vectorstore, indexBuilds, llmCreated, nq, q, retrieved,
                   qRetr, qPrinted>>
    /\ UNCHANGED <<svars, dvars>>

\* ask_rag: build the prompt and return llm.invoke(prompt), whatever docs holds.
InvokeLlm ==
    /\ pc = "llm"
    /\ prompt' = askPrompt(retrieved, q)
    /\ qLlm' = qLlm + 1
    /\ ans' \in Responses
    /\ pc' = "print"
    /\ UNCHANGED <<idx, documents, loaded, diagnostics, outcome>>
    /\ UNCHANGED <<vectorstore, indexBuilds, llmCreated, nq, q, retrieved,
                   qRetr, qPrinted>>
    /\ UNCHANGED <<svars, dvars>>

\* The model call fails (auth, network, rate limit): the exception leaves main.
InvokeLlmRaises ==
    /\ pc = "llm"
    /\ prompt' = askPrompt(retrieved, q)
    /\ qLlm' = qLlm + 1
    /\ pc' = "crashed"
    /\ outcome' = "LlmError"
    /\ UNCHANGED <<idx, documents, loaded, diagnostics>>
    /\ UNCHANGED <<vectorstore, indexBuilds, llmCreated, nq, q, retrieved, ans,
                   qRetr, qPrinted>>
    /\ UNCHANGED <<svars, dvars>>

\* print("\nANSWER:\n", ans.content)
PrintAnswer ==
    /\ pc = "print"
    /\ qPrinted' = qPrinted + 1
    /\ pc' = "input"
    /\ UNCHANGED <<idx, documents, loaded, diagnostics, outcome>>
    /\ UNCHANGED <<vectorstore, indexBuilds, llmCreated, nq, q, retrieved, prompt,
                   ans, qRetr, qLlm>>
    /\ UNCHANGED <<svars, dvars>>

\* The statements of the loop's try block.
LoopPcs == {"input", "retrieve", "llm", "print"}

\* A faulty loop: the try block covers input() alone.
InterruptOnlyAtInput ==
    /\ pc \in LoopPcs
    /\ IF pc = "input"
       THEN pc' = "done" /\ outcome' = "interrupted"
       ELSE pc' = "crashed" /\ outcome' = "KeyboardInterrupt"
    /\ UNCHANGED <<idx, documents, loaded, diagnostics>>
    /\ UNCHANGED <<svars, dvars, mvars>>

\* except KeyboardInterrupt: print("\nExiting."); break
Interrupt ==
    /\ pc \in LoopPcs
    /\ pc' = "done"
    /\ outcome' = "interrupted"
    /\ UNCHANGED <<idx, documents, loaded, diagnostics>>
    /\ UNCHANGED <<svars, dvars, mvars>>

\* Ctrl+C before the loop is entered is caught by nothing.
InterruptBeforeLoop ==
    /\ pc \in {"listdir", "walk", "check", "index", "client"}
    /\ pc' = "crashed"
    /\ outcome' = "KeyboardInterrupt"
    /\ UNCHANGED <<idx, documents, loaded, diagnostics>>
    /\ UNCHANGED <<svars, dvars, mvars>>

MainNext ==
    \/ LoadNext
    \/ CheckDocuments
    \/ BuildIndex
    \/ BuildIndexRaises
    \/ CreateClient
    \/ \E raw \in Queries : ReadQuery(raw)
    \/ ReadEOF
    \/ \E n \in 0..RetrieverK : Retrieve(n)
    \/ RetrieveRaises
    \/ InvokeLlm
    \/ InvokeLlmRaises
    \/ PrintAnswer
    \/ Interrupt
    \/ InterruptBeforeLoop

----------------------------------------------------------------------------
(* Specifications *)

SplitIdle == text = <<>> /\ max_len = DefaultMaxLen /\ spc = "idle"
             /\ chunks = <<>> /\ groups = <<>>

MainStart ==
    /\ pc = "listdir" /\ idx = 1 /\ documents = <<>> /\ loaded = <<>>
    /\ diagnostics = <<>> /\ outcome = ""
    /\ vectorstore = <<>> /\ indexBuilds = 0 /\ llmCreated = FALSE
    /\ nq = 0 /\ q = <<>> /\ retrieved = <<>> /\ prompt = askPrompt(<<>>, <<>>)
    /\ ans = "" /\ qRetr = 0 /\ qLlm = 0 /\ qPrinted = 0

\* A directory that does not exist, or one holding up to MaxFiles entries of
\* different names.
Directory(files) ==
    \/ dirExists = FALSE /\ listing = <<>>
    \/ /\ dirExists = TRUE
       /\ listing \in SeqsUpTo(files, MaxFiles)
       /\ \A m, n \in 1..Len(listing) : m # n => listing[m].name # listing[n].name

\* load_all_data on every directory over Files.
LoadInit == SplitIdle /\ Directory(Files) /\ MainStart

SpecLoad == LoadInit /\ [][LoadNext]_vars

\* main on every directory over MainFiles.
Init == SplitIdle /\ Directory(MainFiles) /\ MainStart

Next == MainNext

Spec == Init /\ [][Next]_vars

\* split_text on every text over Alphabet up to MaxTextLen.
MaxTextLen == 6
MaxMaxLen == 3

Alphabet == {"a", SP, NL, FF}

RECURSIVE StringsUpTo(_)
StringsUpTo(n) ==
    IF n = 0 THEN {<<>>}
    ELSE LET shorter == StringsUpTo(n - 1)
         IN  shorter \cup {Append(s, c) : s \in {x \in shorter : Len(x) = n - 1}, c \in Alphabet}

SplitInit ==
    /\ text \in StringsUpTo(MaxTextLen)
    /\ max_len \in 0..MaxMaxLen
    /\ spc = "call"
    /\ chunks = <<>>
    /\ groups = <<>>
    /\ dirExists = FALSE /\ listing = <<>>
    /\ MainStart

SplitCall ==
    /\ spc = "call"
    /\ chunks' = split_text(text, max_len)
    /\ groups' = splitRun(text, max_len).groups
    /\ spc' = "ret"
    /\ UNCHANGED <<text, max_len>>
    /\ UNCHANGED <<dvars, lvars, mvars>>

SplitNext == SplitCall

SpecSplit == SplitInit /\ [][SplitNext]_vars

----------------------------------------------------------------------------
(* Properties of split_text *)

IsBlank(s) == strip(s) = <<>>

NonBlank(lines) == SelectSeq(lines, LAMBDA l : ~IsBlank(l))
Stripped(lines) == [i \in 1..Len(lines) |-> strip(lines[i])]

\* The lines of the returned chunks, in chunk order.
ChunkLines == Concat([i \in 1..Len(chunks) |-> splitlines(chunks[i])])

\* The history agrees with the result: every chunk is its buffer's lines
\* joined with newlines and trimmed.
GroupsMatchChunks ==
    /\ Len(groups) = Len(chunks)
    /\ \A i \in 1..Len(chunks) : chunks[i] = strip(JoinNL(groups[i]))

\* C4: split_text returns only non-empty strings for every text and max_len (no
\* chunk is empty or whitespace-only, also when the first line, or a line after
\* only blank lines, is longer than max_len), and empty input yields an empty
\* sequence.
C4_ChunksNonEmpty ==
    spc = "ret" =>
        /\ \A i \in 1..Len(chunks) : ~IsBlank(chunks[i])
        /\ (text = <<>> => chunks = <<>>)

\* C5: every returned chunk has length at most max_len, except a chunk made of
\* a single source line that is itself longer than max_len; so every chunk made
\* of two or more source lines (joined with newlines, trimmed) fits max_len.
C5_ChunkLengthPolicy ==
    spc = "ret" =>
        /\ GroupsMatchChunks
        /\ \A i \in 1..Len(chunks) :
              \/ Len(chunks[i]) <= max_len
              \/ Len(groups[i]) = 1 /\ Len(groups[i][1]) > max_len

\* A chunk of two or more lines that is not empty, beside an over-long line
\* emitted whole.
C5_Witness ==
    /\ spc = "ret"
    /\ \E i \in 1..Len(chunks) : Len(groups[i]) >= 2 /\ chunks[i] # <<>>
    /\ \E j \in 1..Len(chunks) : Len(chunks[j]) > max_len

\* C6: splitting the returned chunks back into lines and concatenating them in
\* chunk order gives every non-blank input line exactly once, in the original
\* order, up to the whitespace trimmed at chunk boundaries: none is dropped,
\* duplicated, reordered or cut across two chunks.
C6_Reassembly ==
    spc = "ret" =>
        /\ Stripped(NonBlank(ChunkLines)) = Stripped(NonBlank(splitlines(text)))
        /\ GroupsMatchChunks
        /\ NonBlank(Concat(groups)) = NonBlank(splitlines(text))

\* Several chunks, one of them of two lines, from a text with a blank line.
C6_Witness ==
    /\ spc = "ret"
    /\ Len(chunks) >= 2
    /\ \E i \in 1..Len(chunks) : Len(splitlines(chunks[i])) >= 2
    /\ \E k \in 1..Len(splitlines(text)) : IsBlank(splitlines(text)[k])

----------------------------------------------------------------------------
(* Properties of the loaders and of load_all_data *)

\* The category the fixed priority gives a lower-cased name: "dos", else
\* "arp", else "flow", else unknown.
priorityCategory(fname) ==
    IF Contains(<<"d", "o", "s">>, fname) THEN "dos"
    ELSE IF Contains(<<"a", "r", "p">>, fname) THEN "arp_spoofing"
    ELSE IF Contains(<<"f", "l", "o", "w">>, fname) THEN "flow_rule_poisoning"
    ELSE "unknown"

\* A file name without its four-character extension.
NameStem(name) == SubSeq(name, 1, Len(name) - 4)

\* C2: both loaders give a file the category its lower-cased name has under the
\* priority dos, arp, flow, unknown; so a log and a CSV of the same name (such
\* as dos_arp_test) get the same category.
C2_SamePriorityInBothLoaders ==
    /\ \A m \in 1..Len(loaded) : loaded[m].attack = priorityCategory(lower(loaded[m].name))
    /\ \A m, n \in 1..Len(loaded) :
          NameStem(loaded[m].name) = NameStem(loaded[n].name)
              => loaded[m].attack = loaded[n].attack

\* Every unit of a loaded file has the plane and source of the file's kind, and
\* the file's attack value.
UnitsTagged(csvSource) ==
    \A m \in 1..Len(loaded) : \A u \in 1..Len(loaded[m].units) :
        LET meta == loaded[m].units[u].metadata
        IN  /\ meta.attack = loaded[m].attack
            /\ loaded[m].kind = "log" => meta.plane = "control" /\ meta.source = "controller_log"
            /\ loaded[m].kind = "csv" => meta.plane = "data" /\ meta.source = csvSource

C7_BuildNeverAborts ==
    /\ outcome \notin {"FileNotFoundError", "OSError"}
    /\ pc = "check" =>
          /\ idx = Len(listing) + 1
          /\ ~dirExists \/ listing = <<>> => documents = <<>>

AttackCategories == {"dos", "arp_spoofing", "flow_rule_poisoning", "unknown"}

\* C10: the content of every unit either loader makes, whatever the file holds
\* (lines or cells beyond the 500-character limit included), is neither empty
\* nor whitespace-only, and its one attack value and one plane value are those
\* it was created with.
C10_UnitsWellFormed ==
    /\ \A k \in 1..Len(documents) :
          /\ ~IsBlank(documents[k].page_content)
          /\ documents[k].metadata.attack \in AttackCategories
          /\ documents[k].metadata.plane \in {"control", "data"}
    /\ documents = Concat([m \in 1..Len(loaded) |-> loaded[m].units])

----------------------------------------------------------------------------
(* Properties of ask_rag and main *)

C8_State ==
    /\ indexBuilds <= 1
    /\ indexBuilds = 1 => documents # <<>> /\ vectorstore = documents
    /\ indexBuilds = 0 => vectorstore = <<>>
    /\ nq > 0 \/ pc \in LoopPcs => indexBuilds = 1 /\ llmCreated
    /\ pc = "check" \/ outcome = "no_data" => indexBuilds = 0 /\ ~llmCreated /\ nq = 0
    /\ pc \notin {"listdir", "walk", "check", "crashed"} /\ documents = <<>> =>
          pc = "done" /\ outcome = "no_data"

C8_Step ==
    /\ pc \in LoopPcs => vectorstore' = vectorstore /\ indexBuilds' = indexBuilds
    /\ pc = "done" => pc' = "done"

\* C8: in a run of main the index is built at most once, only from a corpus
\* that is not empty, and before the first query is read; with an empty corpus
\* the run stops without the index, the model client or the loop; once the loop
\* has started nothing adds to the index or rebuilds it.
C8_IndexBuiltOnce == []C8_State /\ [][C8_Step]_vars

\* The loop has read two inputs and printed an answer, on an index built once.
C8_Witness == nq >= 2 /\ qPrinted = 1 /\ indexBuilds = 1 /\ pc = "input"

C9_State ==
    /\ pc = "input" /\ nq > 0 /\ q = <<>> => qRetr = 0 /\ qLlm = 0 /\ qPrinted = 0
    /\ pc = "input" /\ nq > 0 /\ q # <<>> => qRetr = 1 /\ qLlm = 1 /\ qPrinted = 1
    /\ pc = "retrieve" => q # <<>> /\ qRetr = 0 /\ qLlm = 0 /\ qPrinted = 0
    /\ pc = "llm" => q # <<>> /\ qRetr = 1 /\ qLlm = 0 /\ qPrinted = 0
    /\ pc = "print" => q # <<>> /\ qRetr = 1 /\ qLlm = 1 /\ qPrinted = 0
    /\ pc \in LoopPcs => ENABLED Interrupt
    /\ outcome = "interrupted" => pc = "done"

C9_Step ==
    /\ nq' = nq + 1 => pc = "input" /\ (q' = <<>> => pc' = "input")
    /\ pc \in LoopPcs /\ pc' \notin LoopPcs /\ outcome' \notin {"EOFError", "RetrieverError", "LlmError"}
          => pc' = "done" /\ outcome' = "interrupted"
    /\ pc = "done" =>
          nq' = nq /\ qRetr' = qRetr /\ qLlm' = qLlm /\ qPrinted' = qPrinted /\ pc' = "done"

\* C9: the loop reads one query at a time; a blank input causes no retrieval
\* and no model call and the loop reads again; a query that is not blank causes
\* one retrieval, then one model call, and its answer is printed before the next
\* input is read; an interrupt at any point of the loop (waiting for input,
\* retrieving, calling the model) ends the loop, and nothing is processed after.
C9_QueryLoop == []C9_State /\ [][C9_Step]_vars

\* Interrupted between the retrieval and the model call of the second input.
C9_Witness == outcome = "interrupted" /\ nq = 2 /\ qRetr = 1 /\ qLlm = 0

====
